---- MODULE Spec2Model ----
(***************************************************************************)
(* Model of restore.cpp: the per-frame JPEG encoder                        *)
(* (decode_and_save_frame), the video decoding pipeline                    *)
(* (decode_video_to_images) and the batch loop of main.                    *)
(*                                                                         *)
(* The FFmpeg library, the filesystem and the container are the            *)
(* environment: every library call picks its outcome nondeterministically  *)
(* from the outcomes its return value lets the code distinguish.           *)
(***************************************************************************)
EXTENDS Integers, Sequences, FiniteSets, TLC

\* ------------------------------------------------------------------ bounds
\* Most packets the container yields in one run.
MaxPackets == 3
\* Most lines kept from the label file.
MaxLabels == 2
\* Most packets per run when the pipeline runs under main's batch loop.
MainMaxPackets == 1
\* Most labels per run when the pipeline runs under main's batch loop.
MainMaxLabels == 1
\* Most characters in a label file when the label reading loop runs on its own.
MaxText == 4
\* Most packets per run when a job is run twice for comparison.
TwiceMaxPackets == 2
\* Most packets and labels per run when termination is checked.
LiveMaxPackets == 2
LiveMaxLabels == 1

\* ------------------------------------------------------- program constants
\* The cameras vector of main has four entries.
NJobs == 4

\* Label strings (lines of the index file); two names allow a repeated label.
LabelNames == {"a", "b"}

\* ------------------------------------------------------------------- state
VARIABLES
    ppc,            \* position in decode_video_to_images
    step,           \* index of the setup step about to run
    setup_failed,   \* name of the setup step that returned false, or "none"
    frame_indices,  \* std::vector<std::string> frame_indices
    pix_fmt,        \* codec_ctx->pix_fmt
    sws_ctx,        \* TRUE iff sws_ctx is non-null
    frame_count,    \* int frame_count (the label cursor)
    decoded_frames, \* int decoded_frames
    success,        \* bool success
    packets_read,   \* packets av_read_frame has returned so far
    pending,        \* packets the decoder accepted and has not yet turned into a frame
    eos_sent,       \* times avcodec_send_packet(codec_ctx, nullptr) was called
    frames,         \* one record per frame avcodec_receive_frame returned, in order
    cursor_at_flush,\* frame_count when the flush phase began
    hard_errors,    \* phases in which avcodec_receive_frame returned a hard error
    files,          \* output directory: label string -> frame stored in <label>.jpg, 0 = no file
    result,         \* value returned by decode_video_to_images
    mpc,            \* position in main ("none": the pipeline is called on its own)
    job,            \* index into cameras of the range-for loop
    all_success,    \* bool all_success
    attempts,       \* one record per loop iteration of main, in order
    invocations,    \* calls of decode_video_to_images made by main so far
    held,           \* resources acquired and not yet released
    txt,            \* characters of the label file as index_file delivers them
    txt_rest,       \* part of the label file std::getline has not read yet
    lpc,            \* position in the label reading loop, "off" outside it
    live,           \* TRUE when the run is followed to its end under fairness
    run,            \* 1 or 2 when a job is run twice for comparison, else 0
    first,          \* what the first of the two runs was given and did
    inputs,         \* packets, frames and errors the current run of the two got
    faults          \* releases of a resource not held, uses after release, overwritten handles

pvars == <<ppc, step, setup_failed, frame_indices, pix_fmt, sws_ctx, frame_count,
           decoded_frames, success, packets_read, pending, eos_sent, frames,
           cursor_at_flush, hard_errors, files, result>>
mvars == <<mpc, job, all_success, attempts, invocations>>
vars == <<ppc, step, setup_failed, frame_indices, pix_fmt, sws_ctx, frame_count,
          decoded_frames, success, packets_read, pending, eos_sent, frames,
          cursor_at_flush, hard_errors, files, result, mpc, job, all_success, attempts,
          invocations, held, faults, txt, txt_rest, lpc, run, first, inputs, live>>
rvars == <<held, faults>>
lvars == <<txt, txt_rest, lpc>>
tvars == <<run, first, live>>

\* ------------------------------------------------------- environment inputs
RECURSIVE SeqsUpTo(_, _)
SeqsUpTo(S, n) ==
    IF n = 0 THEN {<<>>}
    ELSE LET shorter == SeqsUpTo(S, n - 1)
         IN shorter \cup {Append(s, x) : s \in {t \in shorter : Len(t) = n - 1}, x \in S}

\* The bound on packets and labels in force: the batch loop runs four
\* pipelines in a row, so each of them is explored with smaller inputs.
PacketBound ==
    IF live THEN LiveMaxPackets
    ELSE IF run # 0 THEN TwiceMaxPackets
    ELSE IF mpc = "none" THEN MaxPackets ELSE MainMaxPackets
LabelBound ==
    IF live THEN LiveMaxLabels
    ELSE IF mpc = "none" THEN MaxLabels ELSE MainMaxLabels

\* Contents of frame_indices after the read loop: any sequence of non-empty lines.
LabelInputs == SeqsUpTo(LabelNames, LabelBound)

\* Pixel formats as the code tells them apart.
PixFmts == {"YUV420P", "YUVJ420P", "OTHER"}

\* Outcomes of the conversion block.
ConvOutcomes == {"ok", "alloc_fail", "buffer_fail", "scale_fail"}

\* Outcomes of one decode_and_save_frame call, one per return path.
EncodeOutcomes == {"no_codec", "alloc_ctx_fail", "open_fail", "pkt_alloc_fail",
                   "send_fail", "recv_fail", "fopen_fail", "short_write", "ok"}

\* Outcomes of avcodec_receive_frame as the drain loops tell them apart.
ReceiveOutcomes == {"frame", "again", "error"}

\* ------------------------------------------------------------ pure helpers
\* decode_and_save_frame: return value and what happened to the output file.
decode_and_save_frame(outcome) ==
    CASE outcome \in {"no_codec", "alloc_ctx_fail", "open_fail", "pkt_alloc_fail",
                      "send_fail", "recv_fail", "fopen_fail"}
            -> [ret |-> FALSE, file |-> "none"]
      [] outcome = "short_write" -> [ret |-> TRUE, file |-> "short"]
      [] OTHER -> [ret |-> TRUE, file |-> "full"]

\* if (codec_ctx->pix_fmt != YUV420P && codec_ctx->pix_fmt != YUVJ420P)
NeedsConversion(fmt) == fmt # "YUV420P" /\ fmt # "YUVJ420P"

\* if (frame_count >= static_cast<int>(frame_indices.size()))
LabelsExhausted(fc, n) == fc >= n

\* frame_indices[frame_count] (0-based in the code, 1-based here)
OutputLabel(fc) == frame_indices[fc + 1]

\* Setup steps of decode_video_to_images in program order.
SetupSteps == <<"output_dir", "txt_exists", "txt_open", "read_labels", "video_exists",
                "open_input", "stream_info", "find_stream", "alloc_ctx", "params",
                "open_decoder", "alloc_frame_packet", "sws">>

\* A step with a failure branch: reading the lines cannot fail, and
\* sws_getContext is only called when the pixel format needs conversion.
CanFail(s, fmt) == s # "read_labels" /\ (s = "sws" => NeedsConversion(fmt))

\* Where control goes when setup step s fails: every failure branch returns.
AfterSetupFailureSkip(s) == IF s = "stream_info" THEN "setup" ELSE "returned"
AfterSetupFailure(s) == "returned"

\* frame_count++ of the main drain loop.
MainAdvanceTwice(fc) == fc + 2
MainAdvanceStuck(fc) == fc
MainAdvance(fc) == fc + 1

\* frame_count++ of the flush loop.
FlushAdvanceStuck(fc) == fc
FlushAdvance(fc) == fc + 1

\* success after decode_and_save_frame returned false.
EncodeFailSuccessKept(s) == s
EncodeFailSuccess(s) == FALSE

\* success after a frame is dropped because the labels ran out: untouched.
ExhaustedSuccessCleared(s) == FALSE
ExhaustedSuccess(s) == s

\* Record of one frame returned by avcodec_receive_frame.
FrameRecord(ph, cur, lab, cv, hd, en) ==
    [phase |-> ph, cursor |-> cur, label |-> lab, conv |-> cv, handed |-> hd, enc |-> en]

\* fopen(output_path, "wb") and fwrite: the file of that name, whatever it
\* held (0: no such file), now holds frame fid.
WriteFileKeep(old, fid) == IF old # 0 THEN old ELSE fid
WriteFile(old, fid) == fid

\* What the frames record keeps of an encoder outcome.
EncClass(e) == IF ~e.ret THEN "fail" ELSE IF e.file = "short" THEN "short" ELSE "ok"

\* ---------------------------------------------------------------- resources
\* One event of a code path: a resource is acquired, released or used.
Acq(r) == <<"acq", r>>
Rel(r) == <<"rel", r>>
Use(r) == <<"use", r>>

\* The resources held just before event k of trace, h being held at its
\* start: an acquire adds its handle, a release removes it.
HeldBefore(h, trace, k) ==
    LET after[i \in 0..(k - 1)] ==
            IF i = 0 THEN h
            ELSE CASE trace[i][1] = "acq" -> after[i - 1] \cup {trace[i][2]}
                   [] trace[i][1] = "rel" -> after[i - 1] \ {trace[i][2]}
                   [] OTHER -> after[i - 1]
    IN after[k - 1]

\* The fault event k of trace commits, <<>> if none: a handle acquired over
\* one still held, a release of a handle not held, a use of a handle not held.
FaultOf(h, trace, k) ==
    LET was == trace[k][2] \in HeldBefore(h, trace, k) IN
    CASE trace[k][1] = "acq" /\ was -> <<"overwritten", trace[k][2]>>
      [] trace[k][1] = "rel" /\ ~was -> <<"released_twice", trace[k][2]>>
      [] trace[k][1] = "use" /\ ~was -> <<"used_after_release", trace[k][2]>>
      [] OTHER -> <<>>

\* The step performs the events of trace, in order.
Track(trace) ==
    /\ held' = HeldBefore(held, trace, Len(trace) + 1)
    /\ faults' = faults \cup ({FaultOf(held, trace, k) : k \in 1..Len(trace)} \ {<<>>})

\* Events of a setup step that succeeds.
SetupOkTrace(s, fmt) ==
    CASE s = "open_input" -> <<Acq("format_ctx")>>
      [] s \in {"stream_info", "find_stream"} -> <<Use("format_ctx")>>
      [] s = "alloc_ctx" -> <<Acq("codec_ctx")>>
      [] s \in {"params", "open_decoder"} -> <<Use("codec_ctx")>>
      [] s = "alloc_frame_packet" -> <<Acq("frame"), Acq("packet")>>
      [] s = "sws" -> IF NeedsConversion(fmt)
                      THEN <<Use("codec_ctx"), Acq("sws_ctx")>> ELSE <<>>
      [] OTHER -> <<>>

\* Which of frame and packet were allocated when alloc_frame_packet fails.
PartialAllocs == {<<>>, <<"frame">>, <<"packet">>}

\* Events of a setup step that fails, up to its return false. When frame or
\* packet is null, av_frame_free / av_packet_free on it does nothing.
SetupFailTraceLeak(s, part) ==
    CASE s \in {"stream_info", "find_stream", "alloc_ctx"} -> <<Rel("format_ctx")>>
      [] s \in {"params", "open_decoder"} -> <<Rel("format_ctx")>>
      [] s = "alloc_frame_packet" ->
            [i \in 1..Len(part) |-> Acq(part[i])] \o [i \in 1..Len(part) |-> Rel(part[i])]
            \o <<Rel("codec_ctx"), Rel("format_ctx")>>
      [] s = "sws" -> <<Rel("frame"), Rel("packet"), Rel("codec_ctx"), Rel("format_ctx")>>
      [] OTHER -> <<>>
SetupFailTrace(s, part) ==
    CASE s \in {"stream_info", "find_stream", "alloc_ctx"} -> <<Rel("format_ctx")>>
      [] s \in {"params", "open_decoder"} -> <<Rel("codec_ctx"), Rel("format_ctx")>>
      [] s = "alloc_frame_packet" ->
            [i \in 1..Len(part) |-> Acq(part[i])] \o [i \in 1..Len(part) |-> Rel(part[i])]
            \o <<Rel("codec_ctx"), Rel("format_ctx")>>
      [] s = "sws" -> <<Rel("frame"), Rel("packet"), Rel("codec_ctx"), Rel("format_ctx")>>
      [] OTHER -> <<>>

\* Events of one decode_and_save_frame call, per return path.
EncoderTrace(outcome) ==
    CASE outcome \in {"no_codec", "alloc_ctx_fail"} -> <<Use("frame")>>
      [] outcome \in {"open_fail", "pkt_alloc_fail"} ->
            <<Use("frame"), Acq("jpeg_ctx"), Rel("jpeg_ctx")>>
      [] outcome \in {"send_fail", "recv_fail", "fopen_fail"} ->
            <<Use("frame"), Acq("jpeg_ctx"), Acq("pkt"), Rel("pkt"), Rel("jpeg_ctx")>>
      [] OTHER ->
            <<Use("frame"), Acq("jpeg_ctx"), Acq("pkt"), Acq("file"), Rel("file"),
              Rel("pkt"), Rel("jpeg_ctx")>>

\* Events of the conversion block up to sws_scale, per outcome.
ConvertTrace(cv) ==
    CASE cv = "alloc_fail" -> <<>>
      [] cv = "buffer_fail" -> <<Acq("converted_frame"), Rel("converted_frame")>>
      [] cv = "scale_fail" ->
            <<Acq("converted_frame"), Use("sws_ctx"), Rel("converted_frame")>>
      [] OTHER -> <<Acq("converted_frame"), Use("sws_ctx")>>

\* Events of one iteration of the read loop that got a packet, up to the
\* drain loop: av_packet_unref drops the packet's data on the two continue
\* paths.
PacketTrace(r) ==
    CASE r = "other_stream" ->
            <<Use("format_ctx"), Use("packet"), Acq("packet_data"), Rel("packet_data")>>
      [] r = "send_fail" ->
            <<Use("format_ctx"), Use("packet"), Acq("packet_data"), Use("codec_ctx"),
              Rel("packet_data")>>
      [] OTHER ->
            <<Use("format_ctx"), Use("packet"), Acq("packet_data"), Use("codec_ctx")>>

\* Events of the cleanup block at the end of decode_video_to_images.
CloseTrace(sws) ==
    (IF sws THEN <<Rel("sws_ctx")>> ELSE <<>>)
    \o <<Rel("frame"), Rel("packet"), Rel("codec_ctx"), Rel("format_ctx")>>

\* ------------------------------------------------- decode_video_to_images
\* Where the read loop goes after av_read_frame and avcodec_send_packet: to the
\* flush at the end of the input, to the drain loop after a packet the decoder
\* took, back to av_read_frame after a packet that was discarded.
NextAfterPacketNoBreak(r) ==
    CASE r = "sent" -> "drain"
      [] OTHER -> "read"
NextAfterPacketNoFlush(r) ==
    CASE r = "eof" -> "close"
      [] r = "sent" -> "drain"
      [] OTHER -> "read"
NextAfterPacketStop(r) ==
    CASE r = "sent" -> "drain"
      [] OTHER -> "flush_send"
NextAfterPacket(r) ==
    CASE r = "eof" -> "flush_send"
      [] r = "sent" -> "drain"
      [] OTHER -> "read"

\* What the environment gave the run is noted when the job is run twice.
LogInput(evs) == inputs' = IF run = 0 THEN inputs ELSE inputs \o evs

\* State at entry of decode_video_to_images.
PipelineEntry ==
    /\ ppc = "setup"
    /\ step = 1
    /\ setup_failed = "none"
    /\ frame_indices = <<>>
    /\ pix_fmt = "unset"
    /\ sws_ctx = FALSE
    /\ frame_count = 0
    /\ decoded_frames = 0
    /\ success = TRUE
    /\ packets_read = 0
    /\ pending = 0
    /\ eos_sent = 0
    /\ frames = <<>>
    /\ cursor_at_flush = 0
    /\ hard_errors = {}
    /\ files = [n \in LabelNames |-> 0]
    /\ result = FALSE

\* The call of decode_video_to_images: control enters with fresh locals.
EnterPipeline ==
    /\ ppc' = "setup"
    /\ step' = 1
    /\ setup_failed' = "none"
    /\ frame_indices' = <<>>
    /\ pix_fmt' = "unset"
    /\ sws_ctx' = FALSE
    /\ frame_count' = 0
    /\ decoded_frames' = 0
    /\ success' = TRUE
    /\ packets_read' = 0
    /\ pending' = 0
    /\ eos_sent' = 0
    /\ frames' = <<>>
    /\ cursor_at_flush' = 0
    /\ hard_errors' = {}
    /\ files' = [n \in LabelNames |-> 0]
    /\ result' = FALSE

\* One setup step: it succeeds and the next step follows, or it fails and the
\* function returns false.
SetupStep ==
    /\ ppc = "setup"
    /\ LET s == SetupSteps[step] IN
       \/ /\ \E ls \in (IF s = "read_labels" THEN LabelInputs ELSE {frame_indices}) :
                frame_indices' = ls
          /\ \E fmt \in (IF s = "open_decoder" THEN PixFmts ELSE {pix_fmt}) :
                pix_fmt' = fmt
          /\ sws_ctx' = IF s = "sws" THEN NeedsConversion(pix_fmt) ELSE sws_ctx
          /\ IF step = Len(SetupSteps)
             THEN ppc' = "read" /\ step' = step
             ELSE ppc' = "setup" /\ step' = step + 1
          /\ Track(SetupOkTrace(s, pix_fmt))
          /\ UNCHANGED <<setup_failed, result>>
       \/ /\ CanFail(s, pix_fmt)
          /\ \E part \in (IF s = "alloc_frame_packet" THEN PartialAllocs ELSE {<<>>}) :
                Track(SetupFailTrace(s, part))
          /\ setup_failed' = s
          /\ ppc' = AfterSetupFailure(s)
          /\ IF ppc' = "returned"
             THEN result' = FALSE /\ step' = step
             ELSE result' = result /\ step' = step + 1
          /\ UNCHANGED <<frame_indices, pix_fmt, sws_ctx>>
    /\ UNCHANGED <<frame_count, decoded_frames, success, packets_read, pending,
                   eos_sent, frames, cursor_at_flush, hard_errors, files>>
    /\ UNCHANGED mvars
    /\ UNCHANGED lvars
    /\ UNCHANGED tvars
    /\ UNCHANGED inputs

\* One iteration of the outer while loop up to the inner drain loop:
\* av_read_frame, the stream test and avcodec_send_packet.
ReadPacket ==
    /\ ppc = "read"
    /\ \E r \in {"eof", "other_stream", "send_fail", "sent"} :
         /\ ppc' = NextAfterPacket(r)
         /\ LogInput(<<r>>)
         /\ IF r = "eof"
            THEN /\ Track(<<Use("format_ctx"), Use("packet")>>)
                 /\ UNCHANGED <<packets_read, pending>>
            ELSE /\ packets_read < PacketBound
                 /\ packets_read' = packets_read + 1
                 /\ Track(PacketTrace(r))
                 /\ pending' = IF r = "sent" THEN pending + 1 ELSE pending
    /\ UNCHANGED <<step, setup_failed, frame_indices, pix_fmt, sws_ctx, frame_count,
                   decoded_frames, success, eos_sent, frames, cursor_at_flush,
                   hard_errors, files, result>>
    /\ UNCHANGED mvars
    /\ UNCHANGED lvars
    /\ UNCHANGED tvars

\* One iteration of the inner while loop of the main phase.
DrainFrame ==
    /\ ppc = "drain"
    /\ \E r \in ReceiveOutcomes :
         /\ LogInput(IF r = "again" THEN <<>> ELSE <<r>>)
         /\ CASE r = "again" ->
                   /\ ppc' = "read"
                   /\ Track(<<Use("codec_ctx"), Use("frame"), Rel("packet_data")>>)
                   /\ UNCHANGED <<frame_count, decoded_frames, success, pending, frames,
                                  hard_errors, files>>
              [] r = "error" ->
                   /\ success' = FALSE
                   /\ hard_errors' = hard_errors \cup {"main"}
                   /\ ppc' = "read"
                   /\ Track(<<Use("codec_ctx"), Use("frame"), Rel("packet_data")>>)
                   /\ UNCHANGED <<frame_count, decoded_frames, pending, frames, files>>
              [] OTHER ->
                   /\ pending > 0
                   /\ pending' = pending - 1
                   /\ UNCHANGED hard_errors
                   /\ IF LabelsExhausted(frame_count, Len(frame_indices))
                      THEN /\ frames' = Append(frames,
                                   FrameRecord("main", frame_count, 0, "none", "none", "none"))
                           /\ success' = ExhaustedSuccess(success)
                           /\ ppc' = "read"
                           /\ Track(<<Use("codec_ctx"), Use("frame"), Rel("packet_data")>>)
                           /\ UNCHANGED <<frame_count, decoded_frames, files>>
                      ELSE \E cv \in (IF sws_ctx THEN ConvOutcomes ELSE {"ok"}) :
                           IF cv # "ok"
                           THEN /\ frames' = Append(frames,
                                        FrameRecord("main", frame_count, frame_count + 1,
                                                    "fail", "none", "none"))
                                /\ success' = FALSE
                                /\ ppc' = "read"
                                /\ Track(<<Use("codec_ctx"), Use("frame")>> \o ConvertTrace(cv)
                                         \o <<Rel("packet_data")>>)
                                /\ UNCHANGED <<frame_count, decoded_frames, files>>
                           ELSE \E en \in EncodeOutcomes :
                                LET e == decode_and_save_frame(en) IN
                                /\ frames' = Append(frames,
                                        FrameRecord("main", frame_count, frame_count + 1,
                                                    IF sws_ctx THEN "ok" ELSE "none",
                                                    IF sws_ctx THEN "converted" ELSE "raw",
                                                    EncClass(e)))
                                /\ files' = IF e.file = "none" THEN files
                                            ELSE [files EXCEPT ![OutputLabel(frame_count)] =
                                                      WriteFile(@, Len(frames) + 1)]
                                /\ success' = IF e.ret THEN success
                                              ELSE EncodeFailSuccess(success)
                                /\ decoded_frames' = IF e.ret THEN decoded_frames + 1
                                                     ELSE decoded_frames
                                /\ frame_count' = MainAdvance(frame_count)
                                /\ ppc' = "drain"
                                /\ Track(<<Use("codec_ctx"), Use("frame")>>
                                         \o (IF sws_ctx THEN ConvertTrace(cv) ELSE <<>>)
                                         \o EncoderTrace(en)
                                         \o (IF sws_ctx THEN <<Rel("converted_frame")>>
                                             ELSE <<>>))
    /\ UNCHANGED <<step, setup_failed, frame_indices, pix_fmt, sws_ctx, packets_read,
                   eos_sent, cursor_at_flush, result>>
    /\ UNCHANGED mvars
    /\ UNCHANGED lvars
    /\ UNCHANGED tvars

\* avcodec_send_packet(codec_ctx, nullptr): the end-of-stream signal.
FlushSend ==
    /\ ppc = "flush_send"
    /\ eos_sent' = eos_sent + 1
    /\ cursor_at_flush' = frame_count
    /\ ppc' = "flush"
    /\ Track(<<Use("codec_ctx")>>)
    /\ UNCHANGED <<step, setup_failed, frame_indices, pix_fmt, sws_ctx, frame_count,
                   decoded_frames, success, packets_read, pending, frames,
                   hard_errors, files, result>>
    /\ UNCHANGED mvars
    /\ UNCHANGED lvars
    /\ UNCHANGED tvars
    /\ UNCHANGED inputs

\* One iteration of while (avcodec_receive_frame(codec_ctx, frame) >= 0).
FlushDrain ==
    /\ ppc = "flush"
    /\ \E r \in {"frame", "eof", "error"} :
         /\ LogInput(IF r = "eof" THEN <<>> ELSE <<r>>)
         /\ CASE r = "eof" ->
                   /\ ppc' = "close"
                   /\ Track(<<Use("codec_ctx"), Use("frame")>>)
                   /\ UNCHANGED <<frame_count, decoded_frames, success, pending, frames,
                                  hard_errors, files>>
              [] r = "error" ->
                   /\ hard_errors' = hard_errors \cup {"flush"}
                   /\ ppc' = "close"
                   /\ Track(<<Use("codec_ctx"), Use("frame")>>)
                   /\ UNCHANGED <<frame_count, decoded_frames, success, pending, frames, files>>
              [] OTHER ->
                   /\ pending > 0
                   /\ pending' = pending - 1
                   /\ ppc' = "flush"
                   /\ UNCHANGED hard_errors
                   /\ IF frame_count < Len(frame_indices)
                      THEN \E en \in EncodeOutcomes :
                           LET e == decode_and_save_frame(en) IN
                           /\ frames' = Append(frames,
                                   FrameRecord("flush", frame_count, frame_count + 1,
                                               "none", "raw", EncClass(e)))
                           /\ files' = IF e.file = "none" THEN files
                                       ELSE [files EXCEPT ![OutputLabel(frame_count)] =
                                                 WriteFile(@, Len(frames) + 1)]
                           /\ success' = IF e.ret THEN success ELSE EncodeFailSuccess(success)
                           /\ decoded_frames' = IF e.ret THEN decoded_frames + 1
                                                ELSE decoded_frames
                           /\ frame_count' = FlushAdvance(frame_count)
                           /\ Track(<<Use("codec_ctx"), Use("frame")>> \o EncoderTrace(en))
                      ELSE /\ frames' = Append(frames,
                                   FrameRecord("flush", frame_count, 0, "none", "none", "none"))
                           /\ Track(<<Use("codec_ctx"), Use("frame")>>)
                           /\ UNCHANGED <<frame_count, decoded_frames, success, files>>
    /\ UNCHANGED <<step, setup_failed, frame_indices, pix_fmt, sws_ctx, packets_read,
                   eos_sent, cursor_at_flush, result>>
    /\ UNCHANGED mvars
    /\ UNCHANGED lvars
    /\ UNCHANGED tvars

\* Release of the converter, frame, packet, decoder and container; return success.
Close ==
    /\ ppc = "close"
    /\ ppc' = "returned"
    /\ result' = success
    /\ Track(CloseTrace(sws_ctx))
    /\ UNCHANGED <<step, setup_failed, frame_indices, pix_fmt, sws_ctx, frame_count,
                   decoded_frames, success, packets_read, pending, eos_sent, frames,
                   cursor_at_flush, hard_errors, files>>
    /\ UNCHANGED mvars
    /\ UNCHANGED lvars
    /\ UNCHANGED tvars
    /\ UNCHANGED inputs

\* -------------------------------------------------------------------- main
\* Outcomes of the three precondition tests of one loop iteration.
Preconditions == {"no_video", "no_txt", "no_dir", "ok"}

\* The loop index after an iteration that failed: continue with the next camera.
NextJobAfterFailureBreak(j) == NJobs + 1
NextJobAfterFailure(j) == j + 1

\* all_success after an iteration that failed: all_success = false.
MarkFailedKept(a) == a
MarkFailed(a) == FALSE

\* SetDllDirectoryA under _WIN32; on other builds the step always passes.
SetDllDirectory ==
    /\ mpc = "dll"
    /\ \E ok \in BOOLEAN : mpc' = IF ok THEN "loop" ELSE "exit1"
    /\ UNCHANGED <<job, all_success, attempts, invocations>>
    /\ UNCHANGED pvars
    /\ UNCHANGED rvars
    /\ UNCHANGED lvars
    /\ UNCHANGED tvars
    /\ UNCHANGED inputs

\* Start of one loop iteration: the precondition tests, then the call.
JobBegin ==
    /\ mpc = "loop"
    /\ job <= NJobs
    /\ \E pre \in Preconditions :
         IF pre = "ok"
         THEN /\ UNCHANGED rvars
              /\ UNCHANGED lvars
              /\ UNCHANGED tvars
              /\ UNCHANGED inputs
              /\ mpc' = "call"
              /\ EnterPipeline
              /\ invocations' = invocations + 1
              /\ UNCHANGED <<job, all_success, attempts>>
         ELSE /\ all_success' = MarkFailed(all_success)
              /\ attempts' = Append(attempts, [job |-> job, pre |-> pre, ok |-> FALSE])
              /\ job' = NextJobAfterFailure(job)
              /\ UNCHANGED <<mpc, invocations>>
              /\ UNCHANGED pvars
              /\ UNCHANGED rvars
              /\ UNCHANGED lvars
              /\ UNCHANGED tvars
              /\ UNCHANGED inputs

\* Return of decode_video_to_images into the loop body: the result is folded
\* into all_success, the locals of the call are gone and the next iteration
\* works on the next camera's output directory.
JobEnd ==
    /\ mpc = "call"
    /\ ppc = "returned"
    /\ all_success' = IF result THEN all_success ELSE MarkFailed(all_success)
    /\ attempts' = Append(attempts, [job |-> job, pre |-> "ok", ok |-> result])
    /\ job' = IF result THEN job + 1 ELSE NextJobAfterFailure(job)
    /\ mpc' = "loop"
    /\ ppc' = "idle"
    /\ step' = 1
    /\ setup_failed' = "none"
    /\ frame_indices' = <<>>
    /\ pix_fmt' = "unset"
    /\ sws_ctx' = FALSE
    /\ frame_count' = 0
    /\ decoded_frames' = 0
    /\ success' = TRUE
    /\ packets_read' = 0
    /\ pending' = 0
    /\ eos_sent' = 0
    /\ frames' = <<>>
    /\ cursor_at_flush' = 0
    /\ hard_errors' = {}
    /\ files' = [n \in LabelNames |-> 0]
    /\ result' = FALSE
    /\ UNCHANGED invocations
    /\ UNCHANGED rvars
    /\ UNCHANGED lvars
    /\ UNCHANGED tvars
    /\ UNCHANGED inputs

\* After the loop: the summary message and return 0.
Report ==
    /\ mpc = "loop"
    /\ job > NJobs
    /\ mpc' = "exit0"
    /\ UNCHANGED <<job, all_success, attempts, invocations>>
    /\ UNCHANGED pvars
    /\ UNCHANGED rvars
    /\ UNCHANGED lvars
    /\ UNCHANGED tvars
    /\ UNCHANGED inputs

\* ---------------------------------------------------------- specifications
\* One call of decode_video_to_images on its own.
Init ==
    /\ PipelineEntry
    /\ mpc = "none"
    /\ job = 1
    /\ all_success = TRUE
    /\ attempts = <<>>
    /\ invocations = 0
    /\ held = {}
    /\ faults = {}
    /\ txt = <<>>
    /\ txt_rest = <<>>
    /\ lpc = "off"
    /\ run = 0
    /\ live = FALSE
    /\ first = <<>>
    /\ inputs = <<>>

Next ==
    \/ SetupStep
    \/ ReadPacket
    \/ DrainFrame
    \/ FlushSend
    \/ FlushDrain
    \/ Close

Spec == Init /\ [][Next]_vars

\* The same call when the program keeps running: a statement that can be
\* executed is executed.
InitLive ==
    /\ PipelineEntry
    /\ mpc = "none"
    /\ job = 1
    /\ all_success = TRUE
    /\ attempts = <<>>
    /\ invocations = 0
    /\ held = {}
    /\ faults = {}
    /\ txt = <<>>
    /\ txt_rest = <<>>
    /\ lpc = "off"
    /\ run = 0
    /\ first = <<>>
    /\ inputs = <<>>
    /\ live = TRUE

SpecLive == InitLive /\ [][Next]_vars /\ WF_vars(Next)

\* The whole program: main and the pipeline calls it makes.
InitMain ==
    /\ mpc = "dll"
    /\ job = 1
    /\ all_success = TRUE
    /\ attempts = <<>>
    /\ invocations = 0
    /\ held = {}
    /\ faults = {}
    /\ txt = <<>>
    /\ txt_rest = <<>>
    /\ lpc = "off"
    /\ run = 0
    /\ live = FALSE
    /\ first = <<>>
    /\ inputs = <<>>
    /\ ppc = "idle"
    /\ step = 1
    /\ setup_failed = "none"
    /\ frame_indices = <<>>
    /\ pix_fmt = "unset"
    /\ sws_ctx = FALSE
    /\ frame_count = 0
    /\ decoded_frames = 0
    /\ success = TRUE
    /\ packets_read = 0
    /\ pending = 0
    /\ eos_sent = 0
    /\ frames = <<>>
    /\ cursor_at_flush = 0
    /\ hard_errors = {}
    /\ files = [n \in LabelNames |-> 0]
    /\ result = FALSE

NextMain ==
    \/ SetDllDirectory
    \/ JobBegin
    \/ JobEnd
    \/ Report
    \/ SetupStep
    \/ ReadPacket
    \/ DrainFrame
    \/ FlushSend
    \/ FlushDrain
    \/ Close

SpecMain == InitMain /\ [][NextMain]_vars

\* ------------------------------------------------------------ label reading
\* Characters of a label file: letters, blanks and the newline.
TextChars == {"a", "b", " ", "\t", "\r", "\n"}
TextInputs == SeqsUpTo(TextChars, MaxText)

\* Number of characters before the first newline of rest, or all of them.
LineLen(rest) ==
    IF \E i \in 1..Len(rest) : rest[i] = "\n"
    THEN (CHOOSE i \in 1..Len(rest) :
              rest[i] = "\n" /\ \A j \in 1..(i - 1) : rest[j] # "\n") - 1
    ELSE Len(rest)

\* std::getline(index_file, line): fails when nothing is left to read, else
\* takes the characters up to the next newline and drops that newline.
getline(rest) ==
    [ok   |-> rest # <<>>,
     line |-> SubSeq(rest, 1, LineLen(rest)),
     rest |-> SubSeq(rest, LineLen(rest) + 2, Len(rest))]

\* The whitespace characters among TextChars.
Whitespace == {" ", "\t", "\r", "\n"}

\* if (!line.empty())
KeepLineAlways(line) == TRUE
KeepLineNonBlank(line) == \E i \in 1..Len(line) : line[i] \notin Whitespace
KeepLine(line) == line # <<>>

\* One iteration of while (std::getline(index_file, line)).
GetLine ==
    /\ lpc = "reading"
    /\ LET g == getline(txt_rest) IN
       /\ g.ok
       /\ frame_indices' = IF KeepLine(g.line) THEN Append(frame_indices, g.line)
                           ELSE frame_indices
       /\ txt_rest' = g.rest
    /\ UNCHANGED <<txt, lpc>>
    /\ UNCHANGED <<ppc, step, setup_failed, pix_fmt, sws_ctx, frame_count,
                   decoded_frames, success, packets_read, pending, eos_sent, frames,
                   cursor_at_flush, hard_errors, files, result>>
    /\ UNCHANGED mvars
    /\ UNCHANGED rvars
    /\ UNCHANGED tvars
    /\ UNCHANGED inputs

\* std::getline fails at the end of the file: the loop ends, index_file.close().
LabelsEnd ==
    /\ lpc = "reading"
    /\ ~getline(txt_rest).ok
    /\ lpc' = "done"
    /\ UNCHANGED <<txt, txt_rest>>
    /\ UNCHANGED pvars
    /\ UNCHANGED mvars
    /\ UNCHANGED rvars
    /\ UNCHANGED tvars
    /\ UNCHANGED inputs

\* The label reading loop on its own, over every label file up to MaxText
\* characters: the function is at its read_labels step, nothing is read yet.
InitLabels ==
    /\ ppc = "setup"
    /\ step = CHOOSE i \in 1..Len(SetupSteps) : SetupSteps[i] = "read_labels"
    /\ setup_failed = "none"
    /\ frame_indices = <<>>
    /\ pix_fmt = "unset"
    /\ sws_ctx = FALSE
    /\ frame_count = 0
    /\ decoded_frames = 0
    /\ success = TRUE
    /\ packets_read = 0
    /\ pending = 0
    /\ eos_sent = 0
    /\ frames = <<>>
    /\ cursor_at_flush = 0
    /\ hard_errors = {}
    /\ files = [n \in LabelNames |-> 0]
    /\ result = FALSE
    /\ mpc = "none"
    /\ job = 1
    /\ all_success = TRUE
    /\ attempts = <<>>
    /\ invocations = 0
    /\ held = {}
    /\ faults = {}
    /\ txt \in TextInputs
    /\ txt_rest = txt
    /\ lpc = "reading"
    /\ run = 0
    /\ live = FALSE
    /\ first = <<>>
    /\ inputs = <<>>

NextLabels ==
    \/ GetLine
    \/ LabelsEnd

SpecLabels == InitLabels /\ [][NextLabels]_vars

\* ------------------------------------------------------- one job run twice
\* s is an initial part of t.
IsPrefix(s, t) == Len(s) <= Len(t) /\ SubSeq(t, 1, Len(s)) = s

\* The second run has so far been given what the first was given: the setup
\* succeeds, the label file and the pixel format are the same, and packets,
\* frames and decoder errors come in the same order.
SameInputsSoFar ==
    /\ setup_failed = "none"
    /\ frame_indices \in {<<>>, first.labels}
    /\ pix_fmt \in {"unset", first.pix_fmt}
    /\ ppc # "setup" => (frame_indices = first.labels /\ pix_fmt = first.pix_fmt)
    /\ IsPrefix(inputs, first.inputs)

\* A step of the first call of decode_video_to_images.
FirstRun ==
    /\ run = 1
    /\ Next

\* The job is run again after the first call has returned from a complete
\* setup: what the first call was given and what it did with each frame is
\* kept, and control enters decode_video_to_images with fresh locals.
Rerun ==
    /\ run = 1
    /\ ppc = "returned"
    /\ setup_failed = "none"
    /\ run' = 2
    /\ first' = [labels |-> frame_indices, pix_fmt |-> pix_fmt, inputs |-> inputs,
                 frames |-> frames]
    /\ inputs' = <<>>
    /\ UNCHANGED live
    /\ EnterPipeline
    /\ UNCHANGED mvars
    /\ UNCHANGED rvars
    /\ UNCHANGED lvars

\* A step of the second call, on the inputs of the first; which conversions
\* and encoder calls fail is free in both.
SecondRun ==
    /\ run = 2
    /\ Next
    /\ SameInputsSoFar'

InitTwice ==
    /\ PipelineEntry
    /\ mpc = "none"
    /\ job = 1
    /\ all_success = TRUE
    /\ attempts = <<>>
    /\ invocations = 0
    /\ held = {}
    /\ faults = {}
    /\ txt = <<>>
    /\ txt_rest = <<>>
    /\ lpc = "off"
    /\ run = 1
    /\ live = FALSE
    /\ first = <<>>
    /\ inputs = <<>>

NextTwice ==
    \/ FirstRun
    \/ Rerun
    \/ SecondRun

SpecTwice == InitTwice /\ [][NextTwice]_vars

\* ------------------------------------------------------------------ claims
\* Number of frames the decoder emitted (K) and number of labels (L).
EmittedFrames == Len(frames)
LabelCount == Len(frame_indices)

\* The run has returned after a complete setup.
RunFinished == ppc = "returned" /\ setup_failed = "none"

\* Frame i was written to a file (fopen succeeded in its encoder call).
Written(i) == frames[i].enc \in {"ok", "short"}
WrittenFrames == {i \in 1..EmittedFrames : Written(i)}

\* No conversion and no encoder call of the run failed.
NoFrameFailure ==
    \A i \in 1..EmittedFrames : frames[i].conv # "fail" /\ frames[i].enc # "fail"

\* Label position i carries a string no other consumed position carries.
UniqueLabel(i) ==
    \A j \in 1..LabelCount : j # i => frame_indices[j] # frame_indices[i]

\* The cursor value that followed the processing of frame i.
CursorAfter(i) == IF i < EmittedFrames THEN frames[i + 1].cursor ELSE frame_count

\* Frames 1..n were written under labels 1..n, frame i under label i.
AlignedUpTo(n) ==
    \A i \in 1..n :
        /\ frames[i].label = i
        /\ Written(i)
        /\ UniqueLabel(i) => files[frame_indices[i]] = i

C2_WitnessNoLabels ==
    RunFinished /\ LabelCount = 0 /\ EmittedFrames = 2 /\ result = TRUE

\* C3 as stated: every frame received while unconsumed labels remain advances
\* the label cursor by exactly one, whether its conversion and encode
\* succeeded or failed, so a consumed label i always belongs to frame i.
C3_AsStated ==
    \A i \in 1..EmittedFrames :
        frames[i].cursor < LabelCount =>
            /\ CursorAfter(i) = frames[i].cursor + 1
            /\ frames[i].label = i

\* Position of frame i among the frames of the flush phase.
FlushRank(i) == Cardinality({k \in 1..i : frames[k].phase = "flush"})

\* C4: flush-phase frames come after all main-phase frames, and the j-th
\* flush-phase frame takes label m + j, m being the cursor the main phase
\* left, as long as m + j <= L; beyond that it is dropped.
C4_FlushTakesNextLabels ==
    \A i \in 1..EmittedFrames :
        frames[i].phase = "flush" =>
            /\ \A k \in 1..EmittedFrames : frames[k].phase = "main" => k < i
            /\ IF cursor_at_flush + FlushRank(i) <= LabelCount
               THEN frames[i].label = cursor_at_flush + FlushRank(i)
               ELSE frames[i].label = 0

\* C4 witness: the main phase consumed no label of two, and the second frame
\* of the flush phase was written under label 2.
C4_Witness ==
    /\ RunFinished
    /\ EmittedFrames = 3
    /\ LabelCount = 2
    /\ frames[1].phase = "main" /\ frames[1].conv = "fail"
    /\ frames[2].phase = "flush" /\ frames[2].label = 1
    /\ frames[3].phase = "flush" /\ frames[3].label = 2 /\ frames[3].enc = "ok"

\* C5 as stated: whenever the stream's pixel format needs conversion, every
\* frame handed to decode_and_save_frame is the converted frame, in the main
\* phase and in the flush phase.
C5_AsStated ==
    \A i \in 1..EmittedFrames :
        (frames[i].handed # "none" /\ NeedsConversion(pix_fmt)) =>
            frames[i].handed = "converted"

\* The step receives a frame whose encoder call fails.
EncodeFailsNow ==
    /\ Len(frames') = Len(frames) + 1
    /\ frames'[Len(frames')].enc = "fail"

\* C6: an encoder call that fails sets success to false for the rest of the
\* run, so the run returns false; the failing iteration still advances the
\* cursor by one, reads no packet and stays in its drain loop, so the frames
\* and packets that follow are processed as after a successful encode.
C6_EncodeFailureRecordedNotFatal ==
    /\ []((\E i \in 1..EmittedFrames : frames[i].enc = "fail") =>
              /\ success = FALSE
              /\ ppc = "returned" => result = FALSE)
    /\ [][EncodeFailsNow =>
              /\ ppc' = ppc
              /\ ppc \in {"drain", "flush"}
              /\ frame_count' = frame_count + 1
              /\ packets_read' = packets_read]_vars

\* C6 witness: a finished run whose first frame failed to encode and whose
\* second frame, from a later packet, was written under the next label.
C6_Witness ==
    /\ RunFinished
    /\ EmittedFrames = 2
    /\ frames[1].enc = "fail" /\ frames[1].label = 1
    /\ frames[2].enc = "ok" /\ frames[2].label = 2 /\ frames[2].phase = "main"
    /\ packets_read = 3
    /\ eos_sent = 1
    /\ result = FALSE

\* C7 as stated: a short write of an encoded packet makes the finished run
\* return false.
C7_AsStated ==
    (RunFinished /\ \E i \in 1..EmittedFrames : frames[i].enc = "short") =>
        result = FALSE

\* C8 as stated: a hard decode error in a drain loop, of the main phase or
\* of the flush phase, makes the finished run return false.
C8_AsStated ==
    (RunFinished /\ hard_errors # {}) => result = FALSE

\* C9: once a setup step has failed the function has returned false, and no
\* packet was read, no end-of-stream signal sent, no frame received and no
\* file written.
C9_SetupFailureReturnsAtOnce ==
    setup_failed # "none" =>
        /\ ppc = "returned"
        /\ result = FALSE
        /\ packets_read = 0
        /\ eos_sent = 0
        /\ frames = <<>>
        /\ \A n \in LabelNames : files[n] = 0

\* C9 witness: the last setup step (construction of the conversion context)
\* failed and the function has returned.
C9_Witness ==
    ppc = "returned" /\ setup_failed = "sws" /\ frame_indices # <<>>

\* Loop iterations whose precondition tests passed.
PipelineJobs == {i \in 1..Len(attempts) : attempts[i].pre = "ok"}

\* C10: the loop of main takes the jobs one by one in list order, whatever
\* the outcomes: the i-th iteration is job i, the pipeline was called exactly
\* for the jobs whose preconditions held, a job with a missing precondition
\* is marked failed, and main leaves the loop only after all jobs.
C10_EveryJobAttemptedInOrder ==
    /\ \A i \in 1..Len(attempts) :
          /\ attempts[i].job = i
          /\ attempts[i].pre # "ok" => ~attempts[i].ok
    /\ mpc \in {"loop", "call", "exit0"} => job = Len(attempts) + 1
    /\ invocations = Cardinality(PipelineJobs) + (IF mpc = "call" THEN 1 ELSE 0)
    /\ mpc = "exit0" => Len(attempts) = NJobs

\* C10 witness: main finished the loop after a job without video file, a job
\* whose pipeline failed in setup, a job whose pipeline succeeded and a job
\* without label file.
C10_Witness ==
    /\ mpc = "exit0"
    /\ attempts[1].pre = "no_video"
    /\ attempts[2].pre = "ok" /\ ~attempts[2].ok
    /\ attempts[3].pre = "ok" /\ attempts[3].ok
    /\ attempts[4].pre = "no_txt"
    /\ invocations = 2

\* C11: all_success is the conjunction of the outcomes of the iterations
\* made so far, an iteration skipped for a missing precondition counting as
\* failed; when main has left the loop it is true iff every one of the jobs
\* passed its precondition tests and its pipeline returned true.
C11_AllSuccessIsConjunction ==
    /\ mpc \in {"loop", "call", "exit0"} =>
          (all_success <=> \A i \in 1..Len(attempts) : attempts[i].ok)
    /\ mpc = "exit0" =>
          (all_success <=>
              \A i \in 1..NJobs : attempts[i].pre = "ok" /\ attempts[i].ok)

\* C11 witness: main has left the loop, the first job was skipped for a
\* missing label file, the three pipelines that ran returned true, and
\* all_success is false.
C11_Witness ==
    /\ mpc = "exit0"
    /\ attempts[1].pre = "no_txt"
    /\ \A i \in 2..NJobs : attempts[i].pre = "ok" /\ attempts[i].ok
    /\ all_success = FALSE

\* C11 witness of the other side: all four pipelines returned true and
\* all_success is true.
C11_WitnessAllTrue ==
    /\ mpc = "exit0"
    /\ \A i \in 1..NJobs : attempts[i].pre = "ok" /\ attempts[i].ok
    /\ all_success = TRUE


\* Resources that live for one frame or one decode_and_save_frame call.
CallResources == {"converted_frame", "jpeg_ctx", "pkt", "file"}

\* C12: on every exit path of decode_video_to_images and of
\* decode_and_save_frame, every resource that was acquired is released exactly
\* once before the function returns: nothing is held after the return, no
\* per-frame or per-call resource outlives its frame, and no resource is
\* released twice, used after its release or overwritten while held.
C12_EveryResourceReleasedOnce ==
    /\ faults = {}
    /\ held \cap CallResources = {}
    /\ ppc = "returned" => held = {}

\* A run with a conversion context has returned after one frame failed in the
\* conversion, one failed in the encoder and a packet was discarded; nothing
\* is held.
C12_Witness ==
    /\ RunFinished
    /\ sws_ctx
    /\ \E i \in 1..EmittedFrames : frames[i].conv = "fail"
    /\ \E i \in 1..EmittedFrames : frames[i].enc = "fail"
    /\ packets_read = 3
    /\ held = {}

\* The creation of the conversion context failed after frame and packet were
\* allocated; the function has returned and nothing is held.
C12_WitnessSetupFailure ==
    ppc = "returned" /\ setup_failed = "sws" /\ held = {} /\ faults = {}


\* Positions of txt where a non-empty line starts.
LineStarts(text) ==
    {p \in 1..Len(text) : (p = 1 \/ text[p - 1] = "\n") /\ text[p] # "\n"}

\* The line of text that starts at position p, without its newline.
LineFrom(text, p) ==
    LET ends == {q \in p..(Len(text) + 1) : q = Len(text) + 1 \/ text[q] = "\n"}
        e == CHOOSE q \in ends : \A r \in ends : q <= r
    IN [k \in 1..(e - p) |-> text[p + k - 1]]

\* The non-empty lines of text, in the order they stand in it.
NonEmptyLines(text) ==
    LET S == LineStarts(text) IN
    [k \in 1..Cardinality(S) |->
        LineFrom(text, CHOOSE p \in S : Cardinality({q \in S : q <= p}) = k)]

\* The part of the label file read so far.
TextRead == SubSeq(txt, 1, Len(txt) - Len(txt_rest))

\* C13: the label reading loop returns exactly the non-empty lines of the
\* label file, verbatim and in their order: empty lines are dropped, no
\* non-empty line is dropped, altered or moved. While the loop runs, the
\* labels read are the non-empty lines of the part read so far.
C13_LabelsAreTheNonEmptyLines ==
    /\ lpc = "done" => frame_indices = NonEmptyLines(txt)
    /\ lpc = "reading" => frame_indices = NonEmptyLines(TextRead)

\* The file holds the lines a, empty, b: the labels are a then b.
C13_Witness ==
    /\ lpc = "done"
    /\ txt = <<"a", "\n", "\n", "b">>
    /\ frame_indices = << <<"a">>, <<"b">> >>

\* A line with an inner blank and a trailing carriage return is kept as it is.
C13_WitnessVerbatim ==
    /\ lpc = "done"
    /\ txt = <<"a", " ", "\r", "\n">>
    /\ frame_indices = << <<"a", " ", "\r">> >>

\* Files made of spaces, tabs, carriage returns and newlines only.
WhitespaceOnly(text) == \A i \in 1..Len(text) : text[i] \in Whitespace

\* C14: a label file that is empty or holds only whitespace (spaces, tabs,
\* carriage returns, newlines) yields no label at all.
C14_AsStated ==
    (lpc = "done" /\ WhitespaceOnly(txt)) => frame_indices = <<>>


\* C14 (amended): the label reading loop yields no label exactly for the label
\* files that are empty or hold newlines only; a line of spaces, tabs or
\* carriage returns is a label like any other non-empty line.
C14_OnlyNewlinesYieldNoLabel ==
    lpc = "done" =>
        (frame_indices = <<>> <=> \A i \in 1..Len(txt) : txt[i] = "\n")

\* A file of two newlines was read to its end and gave no label.
C14_Witness ==
    lpc = "done" /\ txt = <<"\n", "\n">> /\ frame_indices = <<>>


\* Both runs of the job have returned and were given the same label file,
\* pixel format, packets, frames and decoder errors.
BothRunsDone ==
    /\ run = 2
    /\ RunFinished
    /\ frame_indices = first.labels
    /\ pix_fmt = first.pix_fmt
    /\ inputs = first.inputs

\* C15: two runs of a job on the same packets, decoder emissions and labels
\* give every label the same frame, whichever conversions, encoder calls or
\* writes fail in either: a label position written in both runs holds the
\* frame of the same index in both.
C15_AsStated ==
    BothRunsDone =>
        \A i \in WrittenFrames, j \in 1..Len(first.frames) :
            (first.frames[j].enc \in {"ok", "short"}
                /\ first.frames[j].label = frames[i].label) => i = j


\* This step reads a packet that is discarded: it is of another stream, or
\* avcodec_send_packet refused it.
PacketDiscardedNow ==
    ppc = "read" /\ packets_read' = packets_read + 1 /\ pending' = pending

\* C16: a packet of another stream and a packet the decoder refuses each
\* leave the label cursor, the success flag and the written files as they
\* were; the packet is released and the loop goes on to read the next packet.
C16_DiscardedPacketChangesNothing ==
    [][PacketDiscardedNow =>
          /\ frame_count' = frame_count
          /\ decoded_frames' = decoded_frames
          /\ success' = success
          /\ files' = files
          /\ frames' = frames
          /\ "packet_data" \notin held'
          /\ faults' = faults
          /\ ppc' = "read"]_vars

\* Of two packets read one was discarded and one gave a frame that was
\* written; the run is still successful and about to read the next packet.
C16_Witness ==
    /\ ppc = "read"
    /\ packets_read = 2
    /\ pending = 0
    /\ EmittedFrames = 1
    /\ Written(1)
    /\ frame_count = 1
    /\ success
    /\ "packet_data" \notin held


\* Order of the phases of a run: setup, decode loop, flush, close, returned.
PhaseRank(pc) ==
    CASE pc = "setup" -> 0
      [] pc \in {"read", "drain"} -> 1
      [] pc = "flush_send" -> 2
      [] pc = "flush" -> 3
      [] pc = "close" -> 4
      [] OTHER -> 5

\* What the cleanup block releases.
RunResources ==
    {"format_ctx", "codec_ctx", "frame", "packet"}
        \cup (IF sws_ctx THEN {"sws_ctx"} ELSE {})

\* C17: a run that passed setup goes through the decode loop, the flush and
\* the close in this order. The end-of-stream signal is sent exactly once, in
\* the step after av_read_frame reported the end of the input; no packet is
\* read or submitted after it; decoder, converter and container stay held
\* until the flush drain has ended and are released by the close that follows.
C17_DecodeFlushCloseInOrder ==
    /\ [](/\ eos_sent <= 1
          /\ eos_sent = 1 <=> (setup_failed = "none" /\ PhaseRank(ppc) >= 3)
          /\ PhaseRank(ppc) \in 1..4 => RunResources \subseteq held
          /\ RunFinished => held = {})
    /\ [][/\ setup_failed' = "none" =>
               /\ PhaseRank(ppc') >= PhaseRank(ppc)
               /\ PhaseRank(ppc') <= PhaseRank(ppc) + 1
          /\ (ppc # "flush_send" /\ ppc' = "flush_send") =>
               (ppc = "read" /\ packets_read' = packets_read /\ pending' = pending)
          /\ eos_sent' # eos_sent => (ppc = "flush_send" /\ ppc' = "flush")
          /\ eos_sent >= 1 => (packets_read' = packets_read /\ pending' <= pending)
          /\ (ppc = "flush" /\ ppc' # "flush") => ppc' = "close"
          /\ (PhaseRank(ppc) >= 1 /\ held' \cap RunResources # held \cap RunResources) =>
               (ppc = "close" /\ ppc' = "returned")]_vars

\* Three packets were read, a buffered frame came out in the flush after the
\* single end-of-stream signal, and the run has returned with nothing held.
C17_Witness ==
    /\ RunFinished
    /\ eos_sent = 1
    /\ packets_read = 3
    /\ \E i \in 1..EmittedFrames : frames[i].phase = "flush"
    /\ held = {}


\* Names under which a file exists.
FilesWritten == {n \in LabelNames : files[n] # 0}

\* C18: in every state of a run 0 <= decoded_frames <= frame_count <= L with
\* L the number of labels; the label list is only indexed at the cursor, and
\* only while the cursor is below L; no more files are written than
\* decoded_frames counts; the cursor never decreases and moves by at most one,
\* and only in a step that drains a frame.
C18_CountersWithinBounds ==
    /\ [](/\ 0 <= decoded_frames
          /\ decoded_frames <= frame_count
          /\ frame_count <= LabelCount
          /\ \A i \in 1..EmittedFrames :
                frames[i].label # 0 =>
                    (frames[i].cursor < LabelCount /\ frames[i].label = frames[i].cursor + 1)
          /\ Cardinality(WrittenFrames) <= decoded_frames
          /\ Cardinality(FilesWritten) <= decoded_frames)
    /\ [][/\ frame_count' >= frame_count
          /\ frame_count' <= frame_count + 1
          /\ frame_count' # frame_count => Len(frames') = Len(frames) + 1
          /\ decoded_frames' >= decoded_frames
          /\ decoded_frames' # decoded_frames => frame_count' = frame_count + 1]_vars

\* Two labels were consumed, one of the two encoder calls failed, and a third
\* frame was dropped because no label was left.
C18_Witness ==
    /\ RunFinished
    /\ LabelCount = 2
    /\ frame_count = 2
    /\ decoded_frames = 1
    /\ EmittedFrames = 3
    /\ frames[3].label = 0


\* C19: every run of decode_video_to_images over finitely many packets and
\* frames returns, whichever submissions, decodes, conversions and encoder
\* calls fail: the decode loop is left for the flush, the flush drain ends in
\* the close, and the close returns a result.
C19_EveryRunReturns ==
    /\ <>(ppc = "returned")
    /\ (ppc \in {"read", "drain"}) ~> (ppc = "returned" /\ eos_sent = 1)

\* A run has returned after a refused or foreign packet, a decoder error in
\* the decode loop, a failed conversion and a decoder error in the flush.
C19_Witness ==
    /\ RunFinished
    /\ hard_errors = {"main", "flush"}
    /\ packets_read = 2
    /\ EmittedFrames = 1
    /\ frames[1].conv = "fail"
    /\ success = FALSE


\* Written frames whose label string is n.
WrittenUnder(n) == {i \in WrittenFrames : frame_indices[frames[i].label] = n}

\* C20: labels are not checked for uniqueness and files are overwritten: the
\* file of a label string holds the last frame written under that string, so
\* when one string stands at two consumed positions and both frames are
\* written the later frame stays; the distinct files are the distinct label
\* strings of the written frames.
C20_LastWriteWins ==
    /\ \A n \in LabelNames :
          files[n] = IF WrittenUnder(n) = {} THEN 0
                     ELSE CHOOSE i \in WrittenUnder(n) : \A j \in WrittenUnder(n) : j <= i
    /\ Cardinality(FilesWritten)
          = Cardinality({frame_indices[frames[i].label] : i \in WrittenFrames})

\* The label a stands twice, both frames were written: one file, holding the
\* second frame.
C20_Witness ==
    /\ RunFinished
    /\ frame_indices = <<"a", "a">>
    /\ EmittedFrames = 2
    /\ Written(1) /\ Written(2)
    /\ files["a"] = 2
    /\ FilesWritten = {"a"}

====
